---- MODULE Spec2Model ----
(***************************************************************************)
(* Model of parse.py: the questionnaire data model (Question,              *)
(* Questionnaire, ProcessType, Process), the two parsers (XmlQuestionnaire *)
(* and JavaQuestionnaire) and the text renderer (the __str__ methods).     *)
(*                                                                         *)
(* A Python str is a sequence of one-character strings, so that strip,     *)
(* split, replace, startswith and format are computed character by         *)
(* character.  Python's None is the value None below when it stands where  *)
(* a str may stand, and the empty sequence where an object may stand (an   *)
(* optional object is a sequence of length 0 or 1).                        *)
(***************************************************************************)
EXTENDS Integers, Sequences, FiniteSets, TLC

VARIABLES
    \* JavaQuestionnaire (src/parse.py:180-222)
    file,           \* the lines read from the file so far, each ending in "\n"
    current_item,   \* get_items: the open record, or None
    items,          \* get_items: the records emitted so far
    jquestions,     \* JavaQuestionnaire.questions
    jpc,            \* "idle", "read", "parse", "done", "failed"
    jerr,           \* the exception that ended the run, or "none"
    jout,           \* str(questionnaire), or None before rendering
    \* XmlQuestionnaire (src/parse.py:133-177), run twice on the same document
    doc,            \* the parsed tree of the input file
    run,            \* 1 or 2: which run of the program is in progress
    xidx,           \* number of Item elements handled in this run
    xquestions,     \* Questionnaire.questions of this run
    xpc,            \* "idle", "parse", "done", "failed"
    xerr,           \* the exception that ended this run, or "none"
    outs,           \* outs[r]: the text run r printed (<<>> before it has)
    \* Process / ProcessType (src/parse.py:72-111)
    selector,       \* the value handed to get_process_type
    ptitle,         \* ProcessType.title, or None before a ProcessType is made
    scanned,        \* the children of the root visited so far
    elems,          \* the Questionaire elements of the matched child visited so far
    questionnaires, \* ProcessType.questionnaires
    ppc,            \* "idle", "scan", "build", "done", "absent", "failed"
    pout            \* str(process_type), or None before rendering

dslVars == <<file, current_item, items, jquestions, jpc, jerr, jout>>
xmlVars == <<doc, run, xidx, xquestions, xpc, xerr, outs>>
procVars == <<selector, ptitle, scanned, elems, questionnaires, ppc, pout>>
vars == <<dslVars, xmlVars, procVars>>

---------------------------------------------------------------------------
(* Bounds of the model. *)
MaxLines == 4       \* lines of a DSL file
MaxItems == 3       \* Item elements of a structured-tree document
MaxChildren == 2    \* children of a process document's root
MaxQuestionaires == 2  \* Questionaire elements under one process type

---------------------------------------------------------------------------
(* Python values and str methods. *)

\* None, where a str may stand.  No str equals it: its one element is not a
\* single character.
None == <<"<None>">>

\* The characters str.strip() removes.
Whitespace == {" ", "\n", "\t"}

\* bool(s) of a str or None.
Truthy(s) == s # None /\ s # <<>>

\* "{}".format(v): None prints as the text None.
Format(v) == IF v = None THEN <<"N", "o", "n", "e">> ELSE v

RECURSIVE LStrip(_)
LStrip(s) == IF s # <<>> /\ Head(s) \in Whitespace THEN LStrip(Tail(s)) ELSE s

RECURSIVE RStrip(_)
RStrip(s) ==
    IF s # <<>> /\ s[Len(s)] \in Whitespace
    THEN RStrip(SubSeq(s, 1, Len(s) - 1))
    ELSE s

\* s.strip()
Strip(s) == LStrip(RStrip(s))

\* s.startswith(p)
StartsWith(s, p) == Len(s) >= Len(p) /\ SubSeq(s, 1, Len(p)) = p

\* s.replace(old, new), old not empty: the non-overlapping occurrences of
\* old, left to right.
RECURSIVE Replace(_, _, _)
Replace(s, old, new) ==
    IF Len(s) < Len(old) THEN s
    ELSE IF StartsWith(s, old)
         THEN new \o Replace(SubSeq(s, Len(old) + 1, Len(s)), old, new)
         ELSE <<Head(s)>> \o Replace(Tail(s), old, new)

\* s.split(c) for a one-character separator: one field more than there are
\* separators; "".split(c) is [""].
RECURSIVE Split(_, _)
Split(s, c) ==
    IF \A i \in 1..Len(s) : s[i] # c THEN <<s>>
    ELSE LET i == CHOOSE j \in 1..Len(s) :
                      s[j] = c /\ \A k \in 1..(j - 1) : s[k] # c
         IN <<SubSeq(s, 1, i - 1)>> \o Split(SubSeq(s, i + 1, Len(s)), c)

\* sep.join(parts)
RECURSIVE Join(_, _)
Join(parts, sep) ==
    IF parts = <<>> THEN <<>>
    ELSE IF Len(parts) = 1 THEN parts[1]
    ELSE parts[1] \o sep \o Join(Tail(parts), sep)

\* The decimal digits of n >= 0, as "{}".format(n) prints them.
DigitChars == <<"0", "1", "2", "3", "4", "5", "6", "7", "8", "9">>

RECURSIVE Decimal(_)
Decimal(n) ==
    IF n < 10 THEN <<DigitChars[n + 1]>>
    ELSE Decimal(n \div 10) \o <<DigitChars[(n % 10) + 1]>>

\* The orders in which a set can be iterated: all sequences listing each
\* element of S exactly once.
Orderings(S) ==
    {p \in [1..Cardinality(S) -> S] : \A i, j \in 1..Cardinality(S) : p[i] = p[j] => i = j}

---------------------------------------------------------------------------
(* Question (src/parse.py:225-253). *)

\* Question(title, subtitle): a truthy str title is stripped.
Question(title, subtitle) ==
    [title |-> IF Truthy(title) THEN Strip(title) ELSE title,
     subtitle |-> subtitle,
     options |-> <<>>]

\* question.add_option(text, value)
add_option(question, text, value) ==
    [question EXCEPT !.options = Append(@, <<text, value>>)]

\* The lines "{i}. {text}\n" of options k..Len(options).
RECURSIVE OptionLines(_, _)
OptionLines(options, k) ==
    IF k > Len(options) THEN <<>>
    ELSE Decimal(k) \o <<".", " ">> \o Format(options[k][1]) \o <<"\n">>
         \o OptionLines(options, k + 1)

\* Question.__str__
QuestionStr(q) ==
    (IF Truthy(q.title)
     THEN <<"\n", "#", "#", "#", " ">> \o Format(q.title) \o <<"\n", "\n">>
     ELSE <<>>)
    \o (IF Truthy(q.subtitle)
        THEN <<"\n", "#", "#", "#", "#", " ">> \o Format(q.subtitle) \o <<"\n", "\n">>
        ELSE <<>>)
    \o OptionLines(q.options, 1)

---------------------------------------------------------------------------
(* Questionnaire (src/parse.py:114-130). *)

\* Questionnaire(title)
Questionnaire(title) == [title |-> title, questions |-> <<>>]

\* questionnaire.add_question(question); the entries of questions are
\* references: <<q>> for a Question q, <<>> for None.
add_question(questions, question) == Append(questions, question)

\* str(x) of an entry of Questionnaire.questions: a Question, or None.
Str(x) == IF x = <<>> THEN Format(None) ELSE QuestionStr(x[1])

\* set([str(q) for q in self.questions])
RenderedSet(questions) == {Str(questions[i]) : i \in 1..Len(questions)}

\* BlockOrders without set(): the list comprehension itself is joined.
BlockOrdersList(questions) == {[i \in 1..Len(questions) |-> Str(questions[i])]}

\* The sequences of blocks "\n".join may be handed: a set of str iterates in
\* an order fixed by the strs' hashes, which are salted per process, so every
\* order of the distinct rendered texts is a possible one.
BlockOrders(questions) == Orderings(RenderedSet(questions))

\* Questionnaire.__str__ when the set iterates in the order blocks.
QuestionnaireStrIn(title, blocks) ==
    (IF Truthy(title)
     THEN <<"#", "#", " ">> \o Format(title) \o <<"\n", "\n">>
     ELSE <<>>)
    \o Join(blocks, <<"\n">>)

\* Every text Questionnaire.__str__ can return.
QuestionnaireStrs(q) ==
    {QuestionnaireStrIn(q.title, blocks) : blocks \in BlockOrders(q.questions)}

---------------------------------------------------------------------------
(* JavaQuestionnaire (src/parse.py:180-222). *)

ItemMarker == <<"i", "t", "e", "m", "(">>
ResponseMarker == <<"r", "e", "s", "p", "o", "n", "s", "e", "(">>
Quote == <<"\"">>
NL == <<"\n">>

\* The lines a file of the model is made of (without their "\n").
\*   item("A","",)          an opening line whose first argument is the title
ItemLineA == ItemMarker \o <<"\"", "A", "\"", ",", "\"", "\"", ",", ")">>
\*   item(x,"A","s",)       an opening line with a leading argument
ItemLineXAS ==
    ItemMarker \o <<"x", ",", "\"", "A", "\"", ",", "\"", "s", "\"", ",", ")">>
\*   item("A"               an opening line with a single argument
ItemLineShort == ItemMarker \o <<"\"", "A", "\"">>
\*    response("a", 1,)     (indented)
ResponseLineA == <<" ">> \o ResponseMarker \o <<"\"", "a", "\"", ",", " ", "1", ",", ")">>
\*   response("b", 2,)
ResponseLineB == ResponseMarker \o <<"\"", "b", "\"", ",", " ", "2", ",", ")">>
\*   response("c")          a response line with a single argument
ResponseLineShort == ResponseMarker \o <<"\"", "c", "\"", ")">>
CloseLine == <<")">>
CloseCommaLine == <<" ", ")", ",">>
OtherLine == <<"}", ";">>

ItemLines == {ItemLineA, ItemLineXAS, ItemLineShort}
ResponseLines == {ResponseLineA, ResponseLineB, ResponseLineShort}
Lines == ItemLines \cup ResponseLines \cup {CloseLine, CloseCommaLine, OtherLine}

\* line.strip() == ")," or line.strip() == ")"
IsTerminator(line) == Strip(line) = <<")", ",">> \/ Strip(line) = <<")">>

\* line.strip().startswith("item(")
IsItemLine(line) == StartsWith(Strip(line), ItemMarker)

\* parse_lines taking the title and subtitle from the first and second
\* comma-separated fields of the item( line instead of the second and third.
RECURSIVE parse_lines_first(_, _)
parse_lines_first(lines, question) ==
    IF lines = <<>> THEN [err |-> "none", question |-> question]
    ELSE LET line == Strip(Head(lines)) IN
         IF StartsWith(line, ItemMarker)
         THEN LET pieces == Split(Replace(line, ItemMarker, <<>>), ",") IN
              IF Len(pieces) < 2
              THEN [err |-> "IndexError", question |-> question]
              ELSE parse_lines_first(Tail(lines),
                       <<Question(Replace(Strip(pieces[1]), Quote, <<>>),
                                  Replace(Strip(pieces[2]), Quote, <<>>))>>)
         ELSE IF StartsWith(line, ResponseMarker)
         THEN LET fields == Split(Replace(Replace(line, ResponseMarker, <<>>),
                                          <<")">>, <<>>), ",") IN
              IF Len(fields) < 2
              THEN [err |-> "ValueError", question |-> question]
              ELSE IF question = <<>>
              THEN [err |-> "AttributeError", question |-> question]
              ELSE parse_lines_first(Tail(lines),
                       <<add_option(question[1],
                                    Replace(Strip(fields[1]), Quote, <<>>),
                                    Strip(fields[2]))>>)
         ELSE parse_lines_first(Tail(lines), question)

\* The body of parse_item's loop over the lines left, question being the
\* Question built so far (<<>> for None).  The result names the exception
\* raised, if any.
RECURSIVE parse_lines(_, _)
parse_lines(lines, question) ==
    IF lines = <<>> THEN [err |-> "none", question |-> question]
    ELSE LET line == Strip(Head(lines)) IN
         IF StartsWith(line, ItemMarker)
         THEN LET pieces == Split(line, ",") IN
              IF Len(pieces) < 3
              THEN [err |-> "IndexError", question |-> question]
              ELSE parse_lines(Tail(lines),
                       <<Question(Replace(Strip(pieces[2]), Quote, <<>>),
                                  Replace(Strip(pieces[3]), Quote, <<>>))>>)
         ELSE IF StartsWith(line, ResponseMarker)
         THEN LET fields == Split(Replace(Replace(line, ResponseMarker, <<>>),
                                          <<")">>, <<>>), ",") IN
              IF Len(fields) < 2
              THEN [err |-> "ValueError", question |-> question]
              ELSE IF question = <<>>
              THEN [err |-> "AttributeError", question |-> question]
              ELSE parse_lines(Tail(lines),
                       <<add_option(question[1],
                                    Replace(Strip(fields[1]), Quote, <<>>),
                                    Strip(fields[2]))>>)
         ELSE parse_lines(Tail(lines), question)

\* JavaQuestionnaire.parse_item(item)
parse_item(item) == parse_lines(Split(item, "\n"), <<>>)

\* get_items_line starting a record at an item( line only when none is open:
\* an item( line met inside an open record is kept as one of its lines.
get_items_line_keep(line) ==
    /\ jpc = "read"
    /\ Len(file) < MaxLines
    /\ file' = Append(file, line)
    /\ IF IsItemLine(line) /\ current_item = None
       THEN /\ current_item' = line
            /\ UNCHANGED <<items, jpc, jerr>>
       ELSE IF IsTerminator(line)
       THEN IF current_item = None
            THEN /\ jpc' = "failed"
                 /\ jerr' = "TypeError"
                 /\ UNCHANGED <<current_item, items>>
            ELSE /\ items' = Append(items, current_item \o line)
                 /\ current_item' = None
                 /\ UNCHANGED <<jpc, jerr>>
       ELSE IF current_item # None
       THEN /\ current_item' = current_item \o line
            /\ UNCHANGED <<items, jpc, jerr>>
       ELSE UNCHANGED <<current_item, items, jpc, jerr>>
    /\ UNCHANGED <<jquestions, jout>>

\* get_items: the body of the loop over the lines of the file, for one line.
\* A terminator line met while no record is open adds a str to None, which
\* raises TypeError.
get_items_line(line) ==
    /\ jpc = "read"
    /\ Len(file) < MaxLines
    /\ file' = Append(file, line)
    /\ IF IsItemLine(line)
       THEN /\ current_item' = line
            /\ UNCHANGED <<items, jpc, jerr>>
       ELSE IF IsTerminator(line)
       THEN IF current_item = None
            THEN /\ jpc' = "failed"
                 /\ jerr' = "TypeError"
                 /\ UNCHANGED <<current_item, items>>
            ELSE /\ items' = Append(items, current_item \o line)
                 /\ current_item' = None
                 /\ UNCHANGED <<jpc, jerr>>
       ELSE IF current_item # None
       THEN /\ current_item' = current_item \o line
            /\ UNCHANGED <<items, jpc, jerr>>
       ELSE UNCHANGED <<current_item, items, jpc, jerr>>
    /\ UNCHANGED <<jquestions, jout>>

\* The file yields its next line.
ReadLine ==
    /\ \E l \in Lines : get_items_line(l \o NL)
    /\ UNCHANGED <<xmlVars, procVars>>

\* End of file: get_items returns items.
EndOfFile ==
    /\ jpc = "read"
    /\ jpc' = "parse"
    /\ UNCHANGED <<file, current_item, items, jquestions, jerr, jout>>
    /\ UNCHANGED <<xmlVars, procVars>>

\* JavaQuestionnaire.__init__: one turn of the loop over items.
ParseItem ==
    /\ jpc = "parse"
    /\ Len(jquestions) < Len(items)
    /\ LET r == parse_item(items[Len(jquestions) + 1]) IN
       IF r.err # "none"
       THEN /\ jpc' = "failed"
            /\ jerr' = r.err
            /\ UNCHANGED jquestions
       ELSE /\ jquestions' = add_question(jquestions, r.question)
            /\ UNCHANGED <<jpc, jerr>>
    /\ UNCHANGED <<file, current_item, items, jout>>
    /\ UNCHANGED <<xmlVars, procVars>>

\* print(parse_file(path)): str of the JavaQuestionnaire, whose title is None.
RenderJava ==
    /\ jpc = "parse"
    /\ Len(jquestions) = Len(items)
    /\ jout' \in QuestionnaireStrs([title |-> None, questions |-> jquestions])
    /\ jpc' = "done"
    /\ UNCHANGED <<file, current_item, items, jquestions, jerr>>
    /\ UNCHANGED <<xmlVars, procVars>>

InitDsl ==
    /\ file = <<>>
    /\ current_item = None
    /\ items = <<>>
    /\ jquestions = <<>>
    /\ jpc = "read"
    /\ jerr = "none"
    /\ jout = None

IdleDsl ==
    /\ file = <<>>
    /\ current_item = None
    /\ items = <<>>
    /\ jquestions = <<>>
    /\ jpc = "idle"
    /\ jerr = "none"
    /\ jout = None

NextDsl == ReadLine \/ EndOfFile \/ ParseItem \/ RenderJava

---------------------------------------------------------------------------
(* XmlQuestionnaire (src/parse.py:133-177). *)
(* An Item element is [descriptions, hasResponses, responses]:            *)
(*   descriptions  the .text of its Description children, in order        *)
(*   hasResponses  whether it has a Responses child                       *)
(*   responses     the Response children of that child, in order          *)
(* A Response element is [Type, Description, items, score]:               *)
(*   Type, Description  its attributes (None when absent)                 *)
(*   items   its descendants named item, each [hasLabel, label, hasValue, *)
(*           value] (the label and value children and their .text)        *)
(*   score   its Score child: [present, children, value], children being  *)
(*           whether the Score element has child elements                 *)

Select1 == <<"s", "e", "l", "e", "c", "t", "1">>
Select == <<"s", "e", "l", "e", "c", "t">>
Radio == <<"r", "a", "d", "i", "o">>
Input == <<"i", "n", "p", "u", "t">>
Matrix == <<"m", "a", "t", "r", "i", "x">>

NoScore == [present |-> FALSE, children |-> FALSE, value |-> None]
SelectItem(label, value) ==
    [hasLabel |-> TRUE, label |-> label, hasValue |-> TRUE, value |-> value]

\* The Response elements of the model.
ResponseSelect1 ==
    [Type |-> Select1, Description |-> None,
     items |-> <<SelectItem(<<"Y", "e", "s">>, <<"1">>), SelectItem(<<"N", "o">>, <<"0">>)>>,
     score |-> NoScore]
ResponseSelect ==
    [Type |-> Select, Description |-> None,
     items |-> <<SelectItem(<<"N", "o">>, <<"0">>)>>,
     score |-> NoScore]
ResponseSelectNoLabel ==
    [Type |-> Select, Description |-> None,
     items |-> <<[hasLabel |-> FALSE, label |-> None, hasValue |-> TRUE, value |-> <<"0">>]>>,
     score |-> NoScore]
ResponseRadio ==
    [Type |-> Radio, Description |-> <<"N", "o">>, items |-> <<>>,
     score |-> [present |-> TRUE, children |-> FALSE, value |-> <<"3">>]]
ResponseRadioNested ==
    [Type |-> Radio, Description |-> <<"N", "o">>, items |-> <<>>,
     score |-> [present |-> TRUE, children |-> TRUE, value |-> <<"5">>]]
ResponseInput ==
    [Type |-> Input, Description |-> None, items |-> <<>>, score |-> NoScore]
ResponseMatrix ==
    [Type |-> Matrix, Description |-> None, items |-> <<>>, score |-> NoScore]

TitleQ == <<" ", "Q">>
TitleR == <<"R">>
SubtitleS == <<"S">>

\* The Item elements of the model.
XmlItem(descriptions, responses) ==
    [descriptions |-> descriptions, hasResponses |-> TRUE, responses |-> responses]
ItemSelect1 == XmlItem(<<TitleQ, SubtitleS>>, <<ResponseSelect1>>)
ItemTwoResponses == XmlItem(<<TitleR>>, <<ResponseRadio, ResponseSelect>>)
ItemRadioNested == XmlItem(<<TitleR>>, <<ResponseRadioNested, ResponseSelect, ResponseInput>>)
ItemBare == XmlItem(<<>>, <<ResponseInput, ResponseMatrix>>)
ItemNoResponses ==
    [descriptions |-> <<TitleQ, SubtitleS>>, hasResponses |-> FALSE, responses |-> <<>>]
ItemNoLabel == XmlItem(<<TitleR, SubtitleS, TitleQ>>, <<ResponseSelectNoLabel>>)

XmlItems ==
    {ItemSelect1, ItemTwoResponses, ItemRadioNested, ItemBare, ItemNoResponses, ItemNoLabel}

\* The loop over response.iter("item") for the elements left: i.find("label")
\* or i.find("value") being None raises AttributeError at .text.
RECURSIVE select_items(_, _)
select_items(question, its) ==
    IF its = <<>> THEN [err |-> "none", question |-> question]
    ELSE IF ~Head(its).hasLabel \/ ~Head(its).hasValue
    THEN [err |-> "AttributeError", question |-> question]
    ELSE select_items(add_option(question, Head(its).label, Head(its).value), Tail(its))

\* The body of the loop over responses, for one Response.  bool(score) of an
\* Element is whether it has children.
xml_response(question, response) ==
    IF response.Type = Select1 \/ response.Type = Select
    THEN select_items(question, response.items)
    ELSE IF response.Type = Radio
    THEN LET value == IF response.score.present /\ response.score.children
                      THEN response.score.value
                      ELSE <<>>
         IN [err |-> "none",
             question |-> add_option(question, response.Description, value)]
    ELSE [err |-> "none", question |-> question]

RECURSIVE xml_responses(_, _)
xml_responses(question, responses) ==
    IF responses = <<>> THEN [err |-> "none", question |-> question]
    ELSE LET r == xml_response(question, Head(responses)) IN
         IF r.err # "none" THEN r
         ELSE xml_responses(r.question, Tail(responses))

\* The Question an Item starts as (lines 143-150).
item_question(item) ==
    Question(IF Len(item.descriptions) > 0 THEN item.descriptions[1] ELSE None,
             IF Len(item.descriptions) > 1 THEN item.descriptions[2] ELSE None)

\* xml_item with add_question inside the loop over responses: the Question
\* is appended once per Response.
RECURSIVE AppendTimes(_, _, _)
AppendTimes(questions, x, n) ==
    IF n = 0 THEN questions ELSE AppendTimes(add_question(questions, x), x, n - 1)

xml_item_per_response(questions, item) ==
    IF ~item.hasResponses
    THEN [err |-> "AttributeError", questions |-> questions]
    ELSE LET r == xml_responses(item_question(item), item.responses) IN
         IF r.err # "none"
         THEN [err |-> r.err, questions |-> questions]
         ELSE [err |-> "none",
               questions |-> AppendTimes(questions, <<r.question>>, Len(item.responses))]

\* The body of the loop over items.iter("Item"), for one Item: the exception
\* raised, if any, and the questions list afterwards.  item.find("Responses")
\* is None when the child is absent, and .findall on it raises AttributeError.
xml_item(questions, item) ==
    IF ~item.hasResponses
    THEN [err |-> "AttributeError", questions |-> questions]
    ELSE LET r == xml_responses(item_question(item), item.responses) IN
         IF r.err # "none"
         THEN [err |-> r.err, questions |-> questions]
         ELSE [err |-> "none", questions |-> add_question(questions, <<r.question>>)]

RECURSIVE xml_items(_, _)
xml_items(questions, its) ==
    IF its = <<>> THEN [err |-> "none", questions |-> questions]
    ELSE LET r == xml_item(questions, Head(its)) IN
         IF r.err # "none" THEN r ELSE xml_items(r.questions, Tail(its))

\* XmlQuestionnaire(path) on the tree d of the file: the exception raised, if
\* any, and the Questionnaire.  A tree is [description, items]: the root's
\* Description attribute (None when absent) and the Item descendants of its
\* Items child (none when the child is absent or has no children).
XmlQuestionnaire(d) ==
    LET r == xml_items(<<>>, d.items) IN
    [err |-> r.err, q |-> [title |-> d.description, questions |-> r.questions]]

\* The documents of the model.
RECURSIVE SeqsUpTo(_, _)
SeqsUpTo(S, n) ==
    IF n = 0 THEN {<<>>}
    ELSE LET shorter == SeqsUpTo(S, n - 1) IN
         shorter \cup {Append(s, x) : s \in shorter, x \in S}

FormTitle == <<"F">>
Documents ==
    {[description |-> t, items |-> its] :
        t \in {None, FormTitle}, its \in SeqsUpTo(XmlItems, MaxItems)}

\* XmlQuestionnaire.__init__: one turn of the loop over the Items.
ParseXmlItem ==
    /\ xpc = "parse"
    /\ xidx < Len(doc.items)
    /\ LET r == xml_item(xquestions, doc.items[xidx + 1]) IN
       IF r.err # "none"
       THEN /\ xpc' = "failed"
            /\ xerr' = r.err
            /\ UNCHANGED <<xidx, xquestions>>
       ELSE /\ xquestions' = r.questions
            /\ xidx' = xidx + 1
            /\ UNCHANGED <<xpc, xerr>>
    /\ UNCHANGED <<doc, run, outs>>
    /\ UNCHANGED <<dslVars, procVars>>

\* print(parse_file(path)): str of the XmlQuestionnaire.
RenderXml ==
    /\ xpc = "parse"
    /\ xidx = Len(doc.items)
    /\ \E text \in QuestionnaireStrs([title |-> doc.description, questions |-> xquestions]) :
           outs' = Append(outs, text)
    /\ xpc' = "done"
    /\ UNCHANGED <<doc, run, xidx, xquestions, xerr>>
    /\ UNCHANGED <<dslVars, procVars>>

\* The program is run a second time on the same file, in a new process.
SecondRun ==
    /\ xpc = "done"
    /\ run = 1
    /\ run' = 2
    /\ xidx' = 0
    /\ xquestions' = <<>>
    /\ xpc' = "parse"
    /\ UNCHANGED <<doc, xerr, outs>>
    /\ UNCHANGED <<dslVars, procVars>>

InitXml ==
    /\ doc \in Documents
    /\ run = 1
    /\ xidx = 0
    /\ xquestions = <<>>
    /\ xpc = "parse"
    /\ xerr = "none"
    /\ outs = <<>>

IdleXml ==
    /\ doc = [description |-> None, items |-> <<>>]
    /\ run = 1
    /\ xidx = 0
    /\ xquestions = <<>>
    /\ xpc = "idle"
    /\ xerr = "none"
    /\ outs = <<>>

NextXml == ParseXmlItem \/ RenderXml \/ SecondRun

---------------------------------------------------------------------------
(* Process and ProcessType (src/parse.py:72-111). *)
(* A Questionaire element is [type, xml, value]: its attributes, None      *)
(* when absent.                                                            *)

Local == <<"L", "o", "c", "a", "l">>
Remote == <<"R", "e", "m", "o", "t", "e">>
DotXml == <<".", "x", "m", "l">>

\* The files beside the process document: path -> tree.
PathF == <<"f">> \o DotXml
PathH == <<"h">> \o DotXml
Paths == {PathF, PathH}
FileTree(path) ==
    IF path = PathF
    THEN [description |-> FormTitle, items |-> <<ItemSelect1, ItemTwoResponses>>]
    ELSE [description |-> None, items |-> <<ItemSelect1, ItemNoResponses>>]

\* The Questionaire elements of the model.
ElemLocalF == [type |-> Local, xml |-> <<"f">>, value |-> <<"a">>]
ElemLocalMissing == [type |-> Local, xml |-> <<"g">>, value |-> <<"b">>]
ElemLocalBroken == [type |-> Local, xml |-> <<"h">>, value |-> <<"c">>]
ElemLocalNoXml == [type |-> Local, xml |-> None, value |-> <<"d">>]
ElemRemote == [type |-> Remote, xml |-> None, value |-> <<"e">>]
ElemRemoteNoValue == [type |-> Remote, xml |-> <<"f">>, value |-> None]
ElemNoType == [type |-> None, xml |-> <<"f">>, value |-> <<"a">>]
Elements ==
    {ElemLocalF, ElemLocalMissing, ElemLocalBroken, ElemLocalNoXml, ElemRemote,
     ElemRemoteNoValue, ElemNoType}

\* ProcessType.parse_questionnaire(q_root): the Questionnaire as a reference,
\* <<q>>, or <<>> for None.  attrib[...] of an absent attribute raises
\* KeyError, ET.parse of a missing file raises FileNotFoundError, and the
\* nested XmlQuestionnaire may raise; each is an Exception and is caught.
parse_questionnaire(q_root) ==
    IF q_root.type = None THEN <<>>
    ELSE IF q_root.type = Local
    THEN IF q_root.xml = None THEN <<>>
         ELSE LET path == q_root.xml \o DotXml IN
              IF path \notin Paths THEN <<>>
              ELSE LET r == XmlQuestionnaire(FileTree(path)) IN
                   IF r.err # "none" THEN <<>> ELSE <<r.q>>
    ELSE IF q_root.value = None THEN <<>>
         ELSE <<Questionnaire(q_root.value)>>

\* The texts str(q) can be for an entry of ProcessType.questionnaires.
EntryStrs(entry) == IF entry = <<>> THEN {Format(None)} ELSE QuestionnaireStrs(entry[1])

\* All sequences whose i-th element is drawn from sets[i].
RECURSIVE Choices(_)
Choices(sets) ==
    IF sets = <<>> THEN {<<>>}
    ELSE {<<x>> \o rest : x \in Head(sets), rest \in Choices(Tail(sets))}

\* Every text ProcessType.__str__ can return.
ProcessTypeStrs(t, qs) ==
    {<<"#", " ">> \o Format(t) \o <<"\n", "\n">> \o Join(strs, <<"\n">>) :
        strs \in Choices([i \in 1..Len(qs) |-> EntryStrs(qs[i])])}

\* The value attributes of the children of a process document's root (None
\* when absent), and the selectors typed in.
ValueI == <<"I">>
ValueF == <<"F">>
ChildValues == {ValueI, ValueF, None}
Selectors == {ValueI, ValueF, <<"Z">>}

\* Matches testing only that the child's value is not empty.
MatchesAny(child, value) == child # <<>>

\* process_type.attrib["value"] == value
Matches(child, value) == child = value

\* get_process_type: one turn of the loop over the root's children.  A child
\* without a value attribute raises KeyError; a match returns
\* ProcessType(value, process_type), whose construction starts here.
ScanChild ==
    /\ ppc = "scan"
    /\ Len(scanned) < MaxChildren
    /\ \E child \in ChildValues :
          /\ scanned' = Append(scanned, child)
          /\ IF child = None
             THEN ppc' = "failed" /\ UNCHANGED ptitle
             ELSE IF Matches(child, selector)
             THEN ppc' = "build" /\ ptitle' = selector
             ELSE UNCHANGED <<ppc, ptitle>>
    /\ UNCHANGED <<selector, elems, questionnaires, pout>>
    /\ UNCHANGED <<dslVars, xmlVars>>

\* get_process_type: the loop ends without a match; the result is None.
NoMatch ==
    /\ ppc = "scan"
    /\ ppc' = "absent"
    /\ UNCHANGED <<selector, ptitle, scanned, elems, questionnaires, pout>>
    /\ UNCHANGED <<dslVars, xmlVars>>

\* BuildQuestionnaire keeping only the elements that resolve.
BuildQuestionnaireDropNone ==
    /\ ppc = "build"
    /\ Len(elems) < MaxQuestionaires
    /\ \E e \in Elements :
          /\ elems' = Append(elems, e)
          /\ questionnaires' =
                IF parse_questionnaire(e) = <<>>
                THEN questionnaires
                ELSE Append(questionnaires, parse_questionnaire(e))
    /\ UNCHANGED <<selector, ptitle, scanned, ppc, pout>>
    /\ UNCHANGED <<dslVars, xmlVars>>

\* ProcessType.__init__: one turn of the comprehension over
\* root.iter("Questionaire").
BuildQuestionnaire ==
    /\ ppc = "build"
    /\ Len(elems) < MaxQuestionaires
    /\ \E e \in Elements :
          /\ elems' = Append(elems, e)
          /\ questionnaires' = Append(questionnaires, parse_questionnaire(e))
    /\ UNCHANGED <<selector, ptitle, scanned, ppc, pout>>
    /\ UNCHANGED <<dslVars, xmlVars>>

\* ProcessType.__init__ returns, and handle_process's result is printed.
RenderProcessType ==
    /\ ppc = "build"
    /\ pout' \in ProcessTypeStrs(ptitle, questionnaires)
    /\ ppc' = "done"
    /\ UNCHANGED <<selector, ptitle, scanned, elems, questionnaires>>
    /\ UNCHANGED <<dslVars, xmlVars>>

InitProc ==
    /\ selector \in Selectors
    /\ ptitle = None
    /\ scanned = <<>>
    /\ elems = <<>>
    /\ questionnaires = <<>>
    /\ ppc = "scan"
    /\ pout = None

IdleProc ==
    /\ selector = <<>>
    /\ ptitle = None
    /\ scanned = <<>>
    /\ elems = <<>>
    /\ questionnaires = <<>>
    /\ ppc = "idle"
    /\ pout = None

NextProc == ScanChild \/ NoMatch \/ BuildQuestionnaire \/ RenderProcessType
---------------------------------------------------------------------------
(* Specifications: one per command of the program, and their union. *)

StartDsl == InitDsl /\ IdleXml /\ IdleProc
StartXml == IdleDsl /\ InitXml /\ IdleProc
StartProc == IdleDsl /\ IdleXml /\ InitProc

SpecDsl == StartDsl /\ [][NextDsl]_vars
SpecXml == StartXml /\ [][NextXml]_vars
SpecProc == StartProc /\ [][NextProc]_vars

Init == StartDsl \/ StartXml \/ StartProc
Next == NextDsl \/ NextXml \/ NextProc
Spec == Init /\ [][Next]_vars

---------------------------------------------------------------------------
(* Properties of XmlQuestionnaire, under SpecXml. *)

\* The number of Response children of the first n Items.
RECURSIVE ResponseCount(_, _)
ResponseCount(its, n) ==
    IF n = 0 THEN 0 ELSE ResponseCount(its, n - 1) + Len(its[n].responses)

\* The title and subtitle an Item's Description children give.
ItemTitle(item) ==
    IF item.descriptions = <<>> THEN None ELSE Strip(item.descriptions[1])
ItemSubtitle(item) ==
    IF Len(item.descriptions) < 2 THEN None ELSE item.descriptions[2]

C5_NoResponsesIsNoError ==
    /\ xpc = "failed" => doc.items[xidx + 1].hasResponses
    /\ \A i \in 1..xidx :
          ~doc.items[i].hasResponses
              => i <= Len(xquestions) /\ xquestions[i][1].options = <<>>

\* C6: two runs on the same document print the same text.
C6_Deterministic == Len(outs) = 2 => outs[1] = outs[2]

\* The distinct rendered texts of the Questions held.
DistinctTexts == {Str(xquestions[i]) : i \in 1..Len(xquestions)}

\* C7: the text printed is the heading followed by the blocks joined with
\* newlines, where the blocks are the distinct rendered texts of the
\* Questions, each exactly once: as many blocks as distinct texts.
C7_Deduplicated ==
    xpc = "done" =>
        \E blocks \in [1..Cardinality(DistinctTexts) -> DistinctTexts] :
            /\ \A i, j \in DOMAIN blocks : blocks[i] = blocks[j] => i = j
            /\ outs[run] = QuestionnaireStrIn(doc.description, blocks)

\* A Questionnaire holding two Questions with the same rendered text, and a
\* third with another, has been rendered.
C7_Witness ==
    /\ xpc = "done"
    /\ \E i, j \in 1..Len(xquestions) : i # j /\ Str(xquestions[i]) = Str(xquestions[j])
    /\ Cardinality(DistinctTexts) >= 2

---------------------------------------------------------------------------
(* Properties of JavaQuestionnaire, under SpecDsl. *)

\* The response lines of the form response("L", v,), and their labels.
WellFormedResponses == {ResponseLineA, ResponseLineB}
LabelOf(line) == IF Strip(line) = Strip(ResponseLineA) THEN <<"a">> ELSE <<"b">>

\* The file is one record: item("A","",), n well-formed response lines, ")".
IsScenario(f) ==
    /\ Len(f) >= 2
    /\ f[1] = ItemLineA \o NL
    /\ f[Len(f)] = CloseLine \o NL
    /\ \A i \in 2..(Len(f) - 1) : \E r \in WellFormedResponses : f[i] = r \o NL

\* The lines "i. L_i\n" for the response lines f[k..Len(f)-1], numbered from k-1.
RECURSIVE NumberedLabels(_, _)
NumberedLabels(f, k) ==
    IF k >= Len(f) THEN <<>>
    ELSE Decimal(k - 1) \o <<".", " ">> \o LabelOf(f[k]) \o <<"\n">>
         \o NumberedLabels(f, k + 1)

\* C3 as stated: the scenario file gives one Question titled A, without
\* subtitle, rendered as the title heading and the numbered labels.
C3_TitleIsFirstArgument ==
    (jpc = "done" /\ IsScenario(file)) =>
        /\ Len(jquestions) = 1
        /\ jquestions[1][1].title = <<"A">>
        /\ ~Truthy(jquestions[1][1].subtitle)
        /\ jout = <<"\n", "#", "#", "#", " ", "A", "\n", "\n">> \o NumberedLabels(file, 2)

\* C3 amended: the scenario file gives one Question whose title is the second
\* argument of item( (empty, so no ### heading) and whose subtitle is the
\* third field of the line, ")", rendered as that #### heading and the labels
\* numbered in source order.
C3_TitleIsSecondArgument ==
    (jpc = "done" /\ IsScenario(file)) =>
        /\ Len(jquestions) = 1
        /\ jquestions[1][1].title = <<>>
        /\ jquestions[1][1].subtitle = <<")">>
        /\ jout = <<"\n", "#", "#", "#", "#", " ", ")", "\n", "\n">>
                  \o NumberedLabels(file, 2)

\* The scenario file with two response lines of different labels has been
\* parsed and rendered.
C3_Witness ==
    /\ jpc = "done"
    /\ file = <<ItemLineA \o NL, ResponseLineA \o NL, ResponseLineB \o NL, CloseLine \o NL>>

\* C4: segmentation fails on no sequence of lines.
C4_SegmentationNeverFails == jerr # "TypeError"

\* The set of elements of a sequence.
Range(s) == {s[i] : i \in 1..Len(s)}

\* The raw lines of a record.
RawLines(rec) ==
    LET f == Split(rec, "\n") IN
    IF f[Len(f)] = <<>> THEN SubSeq(f, 1, Len(f) - 1) ELSE f

\* file[a] \o ... \o file[b]
RECURSIVE Slice(_, _, _)
Slice(f, a, b) == IF a > b THEN <<>> ELSE f[a] \o Slice(f, a + 1, b)

\* A record, open or emitted, starts with an item( line and holds no other.
OneItemLine(rec) ==
    LET ls == RawLines(rec) IN
    /\ IsItemLine(ls[1])
    /\ \A i \in 2..Len(ls) : ~IsItemLine(ls[i])

\* C10: the open record and every emitted record start with an item( line
\* and hold no other; an emitted record ends with its only terminator line;
\* the emitted records are the slices of the file from the last item( line
\* before a terminator to that terminator, in file order, so that an open
\* record is dropped by the next item( line and at end of file; and
\* parse_item never adds an option to an absent Question.
C10_Segmentation ==
    /\ current_item # None =>
          /\ OneItemLine(current_item)
          /\ \A l \in Range(RawLines(current_item)) : ~IsTerminator(l)
    /\ \A k \in 1..Len(items) :
          LET ls == RawLines(items[k]) IN
          /\ OneItemLine(items[k])
          /\ IsTerminator(ls[Len(ls)])
          /\ \A i \in 1..(Len(ls) - 1) : ~IsTerminator(ls[i])
          /\ parse_item(items[k]).err # "AttributeError"
    /\ \E at \in [1..Len(items) -> (1..Len(file)) \X (1..Len(file))] :
          /\ \A k \in 1..Len(items) : items[k] = Slice(file, at[k][1], at[k][2])
          /\ \A k \in 1..(Len(items) - 1) : at[k][2] < at[k + 1][1]
          /\ jerr = "none" =>
                {at[k][2] : k \in 1..Len(items)}
                    = {i \in 1..Len(file) : IsTerminator(file[i])}
    /\ jerr # "AttributeError"
    /\ \A i \in 1..Len(jquestions) : jquestions[i] # <<>>

\* An item( line came while a record was open, a record was emitted later,
\* and a record was still open at end of file.
C10_Witness ==
    /\ jpc = "done"
    /\ Len(items) >= 1
    /\ \E i \in 1..(Len(file) - 1) : IsItemLine(file[i]) /\ IsItemLine(file[i + 1])
    /\ current_item # None

---------------------------------------------------------------------------
(* Properties of Process and ProcessType, under SpecProc. *)

\* The entries of a list that are not None.
RECURSIVE NonNull(_)
NonNull(qs) ==
    IF qs = <<>> THEN <<>>
    ELSE IF Head(qs) = <<>> THEN NonNull(Tail(qs))
    ELSE <<Head(qs)>> \o NonNull(Tail(qs))

\* C2: the text of a ProcessType is its heading and the renderings of its
\* non-null questionnaires joined by newlines; a null slot adds no text.
C2_NullSlotsSkipped ==
    ppc = "done" => pout \in ProcessTypeStrs(ptitle, NonNull(questionnaires))

\* What resolving a Questionaire element gives: the Questionnaire of the
\* file it names, a placeholder titled by its value attribute, or nothing
\* when an attribute or the file is missing or the file fails to parse.
Resolved(e) ==
    IF e.type = Local /\ e.xml # None /\ (e.xml \o DotXml) \in Paths
    THEN LET r == XmlQuestionnaire(FileTree(e.xml \o DotXml)) IN
         IF r.err = "none" THEN <<r.q>> ELSE <<>>
    ELSE IF e.type \notin {None, Local} /\ e.value # None
    THEN <<[title |-> e.value, questions |-> <<>>]>>
    ELSE <<>>

\* C8: construction never fails, and questionnaires has one entry per
\* Questionaire element visited, in order: what the element resolves to, or
\* None when resolving it raises.
C8_OneEntryPerElement ==
    /\ Len(elems) > 0 => ppc \in {"build", "done"}
    /\ Len(questionnaires) = Len(elems)
    /\ \A i \in 1..Len(elems) : questionnaires[i] = Resolved(elems[i])

\* An element that fails to resolve has been followed by one that resolves.
C8_Witness ==
    /\ ppc = "done"
    /\ \E i, j \in 1..Len(questionnaires) :
          i < j /\ questionnaires[i] = <<>> /\ questionnaires[j] # <<>>

\* C9: a ProcessType is made exactly for the first child whose value equals
\* the selector, and is titled with the selector; when the scan ends without
\* a match the result is absent and nothing was made; and the scan fails
\* only on a child that carries no value attribute.
C9_FirstMatch ==
    /\ ppc \in {"build", "done"} =>
          /\ scanned # <<>>
          /\ scanned[Len(scanned)] = selector
          /\ \A i \in 1..(Len(scanned) - 1) : scanned[i] # selector
          /\ ptitle = selector
    /\ ppc = "absent" =>
          /\ \A i \in 1..Len(scanned) : scanned[i] # selector
          /\ ptitle = None
    /\ ppc = "failed" => \E i \in 1..Len(scanned) : scanned[i] = None

\* The second child matched after a first that did not, and its ProcessType
\* was rendered.
C9_Witness ==
    /\ ppc = "done"
    /\ Len(scanned) = 2
    /\ scanned[1] # selector

====
